---- MODULE Spec2Model ----
(***************************************************************************)
(* Model of the road-commons-observatory map component                     *)
(* (src/src/road.old.js, second component, lines 1143-3623) and of the     *)
(* filter of src/src/App.js.                                               *)
(*                                                                         *)
(* Units.  Instants and durations are counted in hours (3,600,000 ms), so  *)
(* that the 30-day window fits TLC's integers; every span of the source is *)
(* a whole number of hours.  Latitude and longitude are counted in 1e-5    *)
(* degrees.  Distances are in millimetres.  The IEEE value Infinity is the *)
(* integer Infinity below, larger than every age the model can produce.    *)
(*                                                                         *)
(* React.  A state update made by a handler is applied at once together    *)
(* with the re-evaluation of the useMemo values that depend on it; the     *)
(* useEffect callbacks whose dependencies changed are recorded in          *)
(* `pending` and run afterwards, in declaration order, one action each.    *)
(* React flushes the effects of a commit before it handles the next event, *)
(* so handlers and map events are enabled only when `pending` is empty.    *)
(* Leaflet view changes (pan, zoom, setView, fitBounds) are atomic and     *)
(* deliver their zoom / moveend / zoomend events within the same step.     *)
(***************************************************************************)
EXTENDS Integers, Sequences, FiniteSets, TLC

\* ------------------------------------------------------------------------
\* Bounds of the model
\* ------------------------------------------------------------------------
MaxObs == 2          \* longest corpus of the component specification
MaxFilterObs == 2    \* longest corpus of the filter specification
MaxFilterTicks == 2  \* clock advances of the filter specification
MaxTrendCount == 12  \* observations per timestamp of the trend specification
MaxLocalObs == 3     \* longest filtered set of the local analysis specification
MaxStatsObs == 3     \* longest set of the statistics specification
MaxClusterCount == 60  \* largest cluster of the cluster specification
MaxViewportObs == 2    \* observations of the viewport specification
MaxAppObs == 2         \* observations of the App.js specification

\* ------------------------------------------------------------------------
\* Program constants
\* ------------------------------------------------------------------------
Null == [isNull |-> TRUE]

Infinity == 1073741824

\* 1000 * 60 * 60 * 24 ms, in hours
DayMs == 24

P0 == [lat |-> 1900000, lng |-> 7290000]
P1 == [lat |-> 1900135, lng |-> 7290000]
P2 == [lat |-> 1900225, lng |-> 7290000]
\* the point (19.00100000020432, 72.90158118020966), whose distance from
\* (19.0, 72.9) evaluates to exactly 200 m
P3 == [lat |-> 1900100, lng |-> 7290158]

MAP_CONFIG ==
  [ center |-> [lat |-> 1907600, lng |-> 7287770],
    initialZoom |-> 12,
    minZoom |-> 8,
    maxZoom |-> 18,
    clusterRadiusPixels |-> 50,
    localPatternRadius |-> 200 ]

PATTERN_MODE_NONE == "none"
PATTERN_MODE_CITY_WIDE == "city_wide"
PATTERN_MODE_LOCAL == "local"
PATTERN_MODE == {PATTERN_MODE_NONE, PATTERN_MODE_CITY_WIDE, PATTERN_MODE_LOCAL}

TimeWindowKeys == {"24h", "7d", "30d", "persistent"}

\* Mutant of TIME_WINDOWS: the 7d entry lacks the factor 24
TIME_WINDOWS_ShortWeek ==
  [ k \in TimeWindowKeys |->
      CASE k = "24h" -> [ms |-> DayMs, label |-> "24h"]
        [] k = "7d" -> [ms |-> 7, label |-> "7d"]
        [] k = "30d" -> [ms |-> 30 * DayMs, label |-> "30d"]
        [] k = "persistent" -> [ms |-> Infinity, label |-> "All"] ]

\* Mutant of TIME_WINDOWS: the persistent window is as long as the 30d one
TIME_WINDOWS_PersistentMonth ==
  [ k \in TimeWindowKeys |->
      CASE k = "24h" -> [ms |-> DayMs, label |-> "24h"]
        [] k = "7d" -> [ms |-> 7 * DayMs, label |-> "7d"]
        [] k = "30d" -> [ms |-> 30 * DayMs, label |-> "30d"]
        [] k = "persistent" -> [ms |-> 30 * DayMs, label |-> "All"] ]

TIME_WINDOWS ==
  [ k \in TimeWindowKeys |->
      CASE k = "24h" -> [ms |-> DayMs, label |-> "24h"]
        [] k = "7d" -> [ms |-> 7 * DayMs, label |-> "7d"]
        [] k = "30d" -> [ms |-> 30 * DayMs, label |-> "30d"]
        [] k = "persistent" -> [ms |-> Infinity, label |-> "All"] ]

\* timeMap of App.js filterObservations
timeMap ==
  [ k \in TimeWindowKeys |->
      CASE k = "24h" -> DayMs
        [] k = "7d" -> 7 * DayMs
        [] k = "30d" -> 30 * DayMs
        [] k = "persistent" -> Infinity ]

ObservationTypes == {"violation", "risk", "infrastructure"}
Lenses == {"all"} \cup ObservationTypes

\* ------------------------------------------------------------------------
\* Input domains
\* ------------------------------------------------------------------------
\* Date.now() at the first render
Now0 == 30 * DayMs + 100

\* generateMockObservations: timestamp = Date.now() - random * 30 days, so
\* every generated observation is at most 30 days old and not in the future.
\* The observations of the component specification: two types, a fresh and
\* an old timestamp, the two violations 250 m apart and the two risks
\* 150 m apart.
StampFresh == Now0
StampOld == Now0 - 29 * DayMs - 10
ModelFields ==
  { [type |-> "violation", pos |-> P0, timestamp |-> StampFresh,
     status |-> "pending", response_time |-> 3],
    [type |-> "violation", pos |-> P2, timestamp |-> StampOld,
     status |-> "resolved", response_time |-> 2],
    [type |-> "risk", pos |-> P0, timestamp |-> StampOld,
     status |-> "pending", response_time |-> 5],
    [type |-> "risk", pos |-> P1, timestamp |-> StampFresh,
     status |-> "resolved", response_time |-> 14] }
\* the lenses and periods the user of the component specification picks
ModelLenses == {"all", "violation", "infrastructure"}
ModelWindows == {"7d", "30d", "persistent"}
\* the instants at which the model reads the clock
ClockValues == {Now0, Now0 + DayMs}

ObsFields(types, points, stamps) ==
  [type : types, pos : points, timestamp : stamps]

\* The object the generator returns; status and response_time are carried
\* where the input fixes them.
MkObservation(i, f) ==
  LET located == [ id |-> i, type |-> f.type, lat |-> f.pos.lat,
                   lng |-> f.pos.lng, timestamp |-> f.timestamp ]
  IN  IF "status" \in DOMAIN f
      THEN [ k \in DOMAIN located \cup {"status", "response_time"} |->
               IF k = "status" THEN f.status
               ELSE IF k = "response_time" THEN f.response_time
               ELSE located[k] ]
      ELSE located

\* All corpora of at most n observations; ids are the positions, as in
\* the generator (`obs_${i}`).
Corpora(n, fields) ==
  UNION { { [i \in 1..k |-> MkObservation(i, s[i])] : s \in [1..k -> fields] }
          : k \in 0..n }

\* ------------------------------------------------------------------------
\* Sequence helpers (Array.prototype.filter / map / some)
\* ------------------------------------------------------------------------
Range(s) == { s[i] : i \in DOMAIN s }

HasId(s, id) == \E i \in DOMAIN s : s[i].id = id

\* ------------------------------------------------------------------------
\* FilterEngine
\* ------------------------------------------------------------------------
\* Mutant of ComputeFilteredData: the age test is <= instead of <
ComputeFilteredData_Inclusive(obs, l, tf, t) ==
  LET afterLens == IF l # "all"
                   THEN SelectSeq(obs, LAMBDA o : o.type = l)
                   ELSE obs
      timeWindow == TIME_WINDOWS[tf]
  IN  IF timeWindow.ms # Infinity
      THEN SelectSeq(afterLens, LAMBDA o : t - o.timestamp <= timeWindow.ms)
      ELSE afterLens

\* road.old.js filteredData (useMemo)
ComputeFilteredData(obs, l, tf, t) ==
  LET afterLens == IF l # "all"
                   THEN SelectSeq(obs, LAMBDA o : o.type = l)
                   ELSE obs
      timeWindow == TIME_WINDOWS[tf]
  IN  IF timeWindow.ms # Infinity
      THEN SelectSeq(afterLens, LAMBDA o : t - o.timestamp < timeWindow.ms)
      ELSE afterLens

\* App.js filterObservations
filterObservations(obs, l, tf, t) ==
  LET afterLens == IF l # "all"
                   THEN SelectSeq(obs, LAMBDA o : o.type = l)
                   ELSE obs
  IN  SelectSeq(afterLens, LAMBDA o : t - o.timestamp < timeMap[tf])

\* ------------------------------------------------------------------------
\* StatsCalculator (StatsUtils)
\* ------------------------------------------------------------------------
\* o.response_time && o.response_time > 0: the field is present, not zero
\* and positive
HasResponseTime(o) ==
  /\ "response_time" \in DOMAIN o
  /\ o.response_time # 0
  /\ o.response_time > 0

\* withResponseTime.reduce((acc, o) => acc + o.response_time, 0)
RECURSIVE SumResponseTime(_)
SumResponseTime(s) ==
  IF s = <<>> THEN 0 ELSE Head(s).response_time + SumResponseTime(Tail(s))

\* Math.round(a / b) for a >= 0, b > 0: the nearest integer, a half upwards
RoundDiv(a, b) == (2 * a + b) \div (2 * b)

\* Number.prototype.toFixed(1) of tenths / 10: the digits before and after
\* the point
ToFixed1(tenths) == ToString(tenths \div 10) \o "." \o ToString(tenths % 10)

\* Mutant of ReviewRate: the digits after the first decimal are cut off
ReviewRate_Truncated(reviewed, total) ==
  ToFixed1((1000 * reviewed) \div total)

\* ((reviewed / total) * 100).toFixed(1)
ReviewRate(reviewed, total) == ToFixed1(RoundDiv(1000 * reviewed, total))

\* Mutant of ByType: infrastructure is not counted
ByType_NoInfrastructure(obs) ==
  [ violation |-> Len(SelectSeq(obs, LAMBDA o : o.type = "violation")),
    risk |-> Len(SelectSeq(obs, LAMBDA o : o.type = "risk")),
    infrastructure |-> 0 ]

\* byType of calculateObservationStats
ByType(obs) ==
  [ violation |-> Len(SelectSeq(obs, LAMBDA o : o.type = "violation")),
    risk |-> Len(SelectSeq(obs, LAMBDA o : o.type = "risk")),
    infrastructure |->
      Len(SelectSeq(obs, LAMBDA o : o.type = "infrastructure")) ]

\* Mutant of AvgResponseTime: the sum is divided by the size of the set
AvgResponseTime_OverAll(obs) ==
  IF Len(SelectSeq(obs, HasResponseTime)) > 0
  THEN RoundDiv(SumResponseTime(SelectSeq(obs, HasResponseTime)), Len(obs))
  ELSE 0

\* avgResponseTime of calculateObservationStats
AvgResponseTime(obs) ==
  LET withResponseTime == SelectSeq(obs, HasResponseTime)
  IN  IF Len(withResponseTime) > 0
      THEN RoundDiv(SumResponseTime(withResponseTime), Len(withResponseTime))
      ELSE 0

\* The value of 0 / 0 in calculateStats: not a number. Every number the
\* statistics can hold is >= 0, so the model writes NaN as a negative one;
\* Math.round(NaN) is NaN and NaN.toFixed(1) is the string "NaN".
NaN == -1

\* o.response_time as a condition: present and not 0
TruthyResponseTime(o) == "response_time" \in DOMAIN o /\ o.response_time # 0

\* calculateStats of App.js and of the first component of road.old.js,
\* applied to that component's filteredData: no division is guarded
calculateStats(filtered) ==
  LET total == Len(filtered)
      withResponseTime == SelectSeq(filtered, TruthyResponseTime)
      avgResponseTime ==
        IF Len(withResponseTime) = 0 THEN NaN
        ELSE RoundDiv(SumResponseTime(withResponseTime), Len(withResponseTime))
      reviewed == Len(SelectSeq(filtered, LAMBDA o : o.status # "pending"))
      reviewRate == IF total = 0 THEN "NaN" ELSE ReviewRate(reviewed, total)
  IN  [ total |-> total, byType |-> ByType(filtered),
        avgResponseTime |-> avgResponseTime, reviewRate |-> reviewRate ]

calculateObservationStats(obs) ==
  LET total == Len(obs)
  IN  IF total = 0
      THEN [ total |-> 0,
             byType |-> [violation |-> 0, risk |-> 0, infrastructure |-> 0],
             avgResponseTime |-> 0,
             reviewRate |-> "0.0" ]
      ELSE
        LET reviewed == Len(SelectSeq(obs, LAMBDA o : o.status # "pending"))
            reviewRate == IF total > 0 THEN ReviewRate(reviewed, total)
                          ELSE "0.0"
        IN  [ total |-> total, byType |-> ByType(obs),
              avgResponseTime |-> AvgResponseTime(obs),
              reviewRate |-> reviewRate ]

\* ------------------------------------------------------------------------
\* SpatialMath (MapUtils)
\* ------------------------------------------------------------------------
\* Mutant of getClusterSize: a cluster of 50 is large
getClusterSize_AtLeast(count) ==
  IF count >= 50 THEN "large" ELSE IF count > 10 THEN "medium" ELSE "small"

\* MapUtils.getClusterSize
getClusterSize(count) ==
  IF count > 50 THEN "large" ELSE IF count > 10 THEN "medium" ELSE "small"

\* MapUtils.getClusterDimensions: dimensions[size] || dimensions.small
getClusterDimensions(size) ==
  CASE size = "large" -> [width |-> 50, height |-> 50, fontSize |-> "16px"]
    [] size = "medium" -> [width |-> 40, height |-> 40, fontSize |-> "14px"]
    [] OTHER -> [width |-> 32, height |-> 32, fontSize |-> "12px"]

\* iconCreateFunction of the markers effect (road.old.js:1779)
iconCreateFunction(count) ==
  [ size |-> getClusterSize(count),
    dims |-> getClusterDimensions(getClusterSize(count)) ]

\* iconCreateFunction of the earlier component (road.old.js:211), which
\* sizes the icon inline: iconSize L.point(w, h) and the font-size
inlineIconCreateFunction(count) ==
  LET size == IF count > 50 THEN "large"
              ELSE IF count > 10 THEN "medium" ELSE "small"
      px == IF size = "large" THEN 50 ELSE IF size = "medium" THEN 40 ELSE 32
  IN  [ size |-> size,
        dims |-> [ width |-> px, height |-> px,
                   fontSize |-> IF size = "large" THEN "16px"
                                ELSE IF size = "medium" THEN "14px"
                                ELSE "12px" ] ]

\* MapUtils.getDistance: the Haversine formula on a sphere of radius
\* 6,371,000 m, evaluated in IEEE double arithmetic for every ordered pair
\* of points of the model and rounded to the millimetre.  The table is
\* keyed by the differences lat2 - lat1 and lng2 - lng1 as the formula
\* forms them.  P0, P1 and P2 lie on one meridian; P3 lies 100 units north
\* and 158 units east of P0.  The table has no entry for any other pair.
HaversineMm(lat1, lng1, lat2, lng2) ==
  LET dLat == lat2 - lat1
      dLng == lng2 - lng1
  IN  CASE dLng = 0 /\ dLat = 0 -> 0
        [] dLng = 0 /\ dLat = 90 -> 100075
        [] dLng = 0 /\ dLat = -90 -> 100075
        [] dLng = 0 /\ dLat = 135 -> 150113
        [] dLng = 0 /\ dLat = -135 -> 150113
        [] dLng = 0 /\ dLat = 225 -> 250189
        [] dLng = 0 /\ dLat = -225 -> 250189
        [] dLng = 158 /\ dLat = 100 -> 200000
        [] dLng = -158 /\ dLat = -100 -> 200000
        [] dLng = 158 /\ dLat = -35 -> 170734
        [] dLng = -158 /\ dLat = 35 -> 170734
        [] dLng = 158 /\ dLat = -125 -> 216690
        [] dLng = -158 /\ dLat = 125 -> 216690

\* Mutant of getDistance: a point to the south counts as being at the
\* same place
getDistance_NorthOnly(lat1, lng1, lat2, lng2) ==
  IF lat2 < lat1 THEN 0 ELSE HaversineMm(lat1, lng1, lat2, lng2)

getDistance(lat1, lng1, lat2, lng2) == HaversineMm(lat1, lng1, lat2, lng2)

\* MapUtils.getBoundsForPoints
MinOf(S) == CHOOSE x \in S : \A y \in S : x <= y
MaxOf(S) == CHOOSE x \in S : \A y \in S : x >= y

getBoundsForPoints(points) ==
  IF Len(points) = 0 THEN Null
  ELSE [ minLat |-> MinOf({ points[i].lat : i \in DOMAIN points }),
         minLng |-> MinOf({ points[i].lng : i \in DOMAIN points }),
         maxLat |-> MaxOf({ points[i].lat : i \in DOMAIN points }),
         maxLng |-> MaxOf({ points[i].lng : i \in DOMAIN points }) ]

\* ------------------------------------------------------------------------
\* The Leaflet map (external): a view is a center and a zoom level
\* ------------------------------------------------------------------------
RECURSIVE Pow2(_)
Pow2(n) == IF n <= 0 THEN 1 ELSE 2 * Pow2(n - 1)

\* Half extent of the viewport, in 1e-5 degrees, at a zoom level: it halves
\* with every zoom step (about 150 m at the deepest level).
HalfSpan(zoom) == 137 * Pow2(MAP_CONFIG.maxZoom - zoom)

ClampZoom(z) ==
  IF z < MAP_CONFIG.minZoom THEN MAP_CONFIG.minZoom
  ELSE IF z > MAP_CONFIG.maxZoom THEN MAP_CONFIG.maxZoom ELSE z

\* map.getBounds()
getBounds(map) ==
  [ south |-> map.center.lat - HalfSpan(map.zoom),
    north |-> map.center.lat + HalfSpan(map.zoom),
    west |-> map.center.lng - HalfSpan(map.zoom),
    east |-> map.center.lng + HalfSpan(map.zoom) ]

\* bounds.contains([lat, lng]): the boundary is inside
contains(bounds, lat, lng) ==
  /\ lat >= bounds.south /\ lat <= bounds.north
  /\ lng >= bounds.west /\ lng <= bounds.east

\* map.setView(center, zoom)
setView(map, center, zoom) == [center |-> center, zoom |-> ClampZoom(zoom)]

\* map.fitBounds(bounds): the deepest zoom at which the box fits, centred
fitBounds(map, box) ==
  LET halfLat == (box.maxLat - box.minLat + 1) \div 2
      halfLng == (box.maxLng - box.minLng + 1) \div 2
      fits == { z \in MAP_CONFIG.minZoom..MAP_CONFIG.maxZoom :
                  HalfSpan(z) >= halfLat /\ HalfSpan(z) >= halfLng }
  IN  [ center |-> [ lat |-> (box.minLat + box.maxLat) \div 2,
                     lng |-> (box.minLng + box.maxLng) \div 2 ],
        zoom |-> IF fits = {} THEN MAP_CONFIG.minZoom ELSE MaxOf(fits) ]

\* ------------------------------------------------------------------------
\* PatternAnalyzer (PatternUtils)
\* ------------------------------------------------------------------------
\* Mutant of getMatchingObservations: the type is not compared
getMatchingObservations_All(obs, referenceObservation) == obs

\* Mutant of getMatchingObservations: the reference itself is left out
getMatchingObservations_Others(obs, referenceObservation) ==
  SelectSeq(obs, LAMBDA o : /\ o.type = referenceObservation.type
                            /\ o.id # referenceObservation.id)

getMatchingObservations(obs, referenceObservation) ==
  SelectSeq(obs, LAMBDA o : o.type = referenceObservation.type)

\* Mutant of getNearbyObservations: the radius itself is outside
getNearbyObservations_Exclusive(obs, centerLat, centerLng, radiusMeters) ==
  SelectSeq(obs, LAMBDA o :
    getDistance(centerLat, centerLng, o.lat, o.lng) < radiusMeters * 1000)

\* radiusMeters is in metres, getDistance in millimetres
getNearbyObservations(obs, centerLat, centerLng, radiusMeters) ==
  SelectSeq(obs, LAMBDA o :
    getDistance(centerLat, centerLng, o.lat, o.lng) <= radiusMeters * 1000)

\* nearbyObs of handleLocalPattern (road.old.js:1923)
NearbyMatching(filtered, reference) ==
  getNearbyObservations(
    SelectSeq(filtered, LAMBDA o : o.type = reference.type),
    reference.lat, reference.lng, MAP_CONFIG.localPatternRadius)

CountIf(s, Test(_)) == Len(SelectSeq(s, Test))

\* Mutant of Trend: the factor 1.2 is reached, not exceeded
Trend_AtLeast(recentCount, olderCount) ==
  IF 10 * recentCount >= 12 * olderCount THEN "increasing"
  ELSE IF 10 * recentCount < 8 * olderCount THEN "declining"
  ELSE "stable"

\* recentCount > olderCount * 1.2, recentCount < olderCount * 0.8
Trend(recentCount, olderCount) ==
  IF 10 * recentCount > 12 * olderCount THEN "increasing"
  ELSE IF 10 * recentCount < 8 * olderCount THEN "declining"
  ELSE "stable"

calculateCityWideStats(obs, timeWindowMs, t) ==
  LET uniqueZones == Cardinality({ <<obs[i].lat \div 1000, obs[i].lng \div 1000>>
                                    : i \in DOMAIN obs })
      midpoint == t - timeWindowMs \div 2
      recentCount == CountIf(obs, LAMBDA o : o.timestamp > midpoint)
      olderCount == CountIf(obs, LAMBDA o : o.timestamp <= midpoint)
  IN  [ total |-> Len(obs),
        affectedZones |-> uniqueZones,
        trend |-> Trend(recentCount, olderCount),
        recentCount |-> recentCount ]

\* timestamps.sort((a, b) => a - b) on a copy made by map()
RECURSIVE Insert(_, _)
Insert(x, s) ==
  IF s = <<>> THEN <<x>>
  ELSE IF x <= Head(s) THEN <<x>> \o s
  ELSE <<Head(s)>> \o Insert(x, Tail(s))

RECURSIVE SortAscending(_)
SortAscending(s) ==
  IF s = <<>> THEN <<>> ELSE Insert(Head(s), SortAscending(Tail(s)))

\* Mutant of CeilDiv: one more than the floor
CeilDiv_FloorPlusOne(a, b) == a \div b + 1

\* Math.ceil(timeSpan / (1000 * 60 * 60 * 24)) for timeSpan >= 0
CeilDiv(a, b) == (a + b - 1) \div b

\* Mutant of AfterLocalStats: the array itself is sorted by timestamp
RECURSIVE InsertByTimestamp(_, _)
InsertByTimestamp(x, s) ==
  IF s = <<>> THEN <<x>>
  ELSE IF x.timestamp <= Head(s).timestamp THEN <<x>> \o s
  ELSE <<Head(s)>> \o InsertByTimestamp(x, Tail(s))

RECURSIVE AfterLocalStats_SortedInPlace(_)
AfterLocalStats_SortedInPlace(obs) ==
  IF obs = <<>> THEN <<>>
  ELSE InsertByTimestamp(Head(obs), AfterLocalStats_SortedInPlace(Tail(obs)))

\* The array passed to calculateLocalStats, after the call: map() copies
\* the timestamps and sort() orders the copy
AfterLocalStats(obs) == obs

\* Mutant of calculateLocalStats: an empty set gets a record of zeros
calculateLocalStats_EmptyRecord(obs, timeWindowMs, t) ==
  [ count |-> Len(obs),
    timeSpanDays |->
      IF Len(obs) = 0 THEN 0
      ELSE CeilDiv(MaxOf({ obs[i].timestamp : i \in DOMAIN obs })
                     - MinOf({ obs[i].timestamp : i \in DOMAIN obs }), DayMs),
    trend |->
      Trend(CountIf(obs, LAMBDA o : o.timestamp > t - timeWindowMs \div 2),
            CountIf(obs, LAMBDA o : o.timestamp <= t - timeWindowMs \div 2)) ]

calculateLocalStats(obs, timeWindowMs, t) ==
  IF Len(obs) = 0 THEN Null
  ELSE
    LET timestamps == SortAscending([i \in DOMAIN obs |-> obs[i].timestamp])
        timeSpan == timestamps[Len(timestamps)] - timestamps[1]
        timeSpanDays == CeilDiv(timeSpan, DayMs)
        midpoint == t - timeWindowMs \div 2
        recentCount == CountIf(obs, LAMBDA o : o.timestamp > midpoint)
        olderCount == CountIf(obs, LAMBDA o : o.timestamp <= midpoint)
    IN  [ count |-> Len(obs),
          timeSpanDays |-> timeSpanDays,
          trend |-> Trend(recentCount, olderCount) ]

\* ------------------------------------------------------------------------
\* State of the component RoadCommonsTransparency (road.old.js:1564)
\* ------------------------------------------------------------------------
VARIABLES
  observations,         \* the corpus (useMemo, computed once)
  now,                  \* the clock read by Date.now()
  lens, timeFilter, zoomLevel, selectedObservation, expandedDetail,
  sidebarOpen, mapLoaded, visibleObservations,
  patternMode, patternData, savedMapState,
  filteredData,         \* useMemo over observations, lens, timeFilter
  leaflet,              \* loading of the Leaflet scripts
  mapInstance,          \* mapInstanceRef.current: Null or the map's view
  markersLayer,         \* markersLayerRef.current: markers and the mode
                        \* their click handlers closed over
  viewportListener,     \* the moveend/zoomend listener and its filteredData
  localPatternCircle,   \* localPatternCircleRef.current
  circleLayers,         \* number of L.circle layers on the map
  pending,              \* effects scheduled by the last commit
  roundTrip,            \* history: the view and selection before an entry
                        \* that no other command has followed yet
  appFilteredData,      \* filteredData of the App.js component
  utilCall              \* the last call of a utility function made outside
                        \* the component: its name, arguments and result

vars ==
  << observations, now, lens, timeFilter, zoomLevel, selectedObservation,
     expandedDetail, sidebarOpen, mapLoaded, visibleObservations,
     patternMode, patternData, savedMapState, filteredData, leaflet,
     mapInstance, markersLayer, viewportListener, localPatternCircle,
     circleLayers, pending, roundTrip, appFilteredData, utilCall >>

corpusVars == << observations, utilCall >>
filterVars == << corpusVars, now, lens, timeFilter, filteredData >>
selectionVars == << selectedObservation, expandedDetail, sidebarOpen >>
patternVars ==
  << patternMode, patternData, savedMapState, localPatternCircle,
     circleLayers >>
mapVars == << mapInstance, zoomLevel, visibleObservations >>
loadVars == << mapLoaded, leaflet >>
layerVars == << markersLayer, viewportListener >>

\* Effects in declaration order
EffectOrder ==
  [ e \in {"deselect", "loadLeaflet", "mapInit", "visible", "markers"} |->
      CASE e = "deselect" -> 1
        [] e = "loadLeaflet" -> 2
        [] e = "mapInit" -> 3
        [] e = "visible" -> 4
        [] e = "markers" -> 5 ]

IsNext(e) == e \in pending /\ \A f \in pending : EffectOrder[e] <= EffectOrder[f]

Idle == pending = {}

\* The effects whose dependency lists see a change in this commit
Triggered ==
  LET filteredChanged == lens' # lens \/ timeFilter' # timeFilter
      selectionChanged == selectedObservation' # selectedObservation
  IN  (IF filteredChanged \/ selectionChanged THEN {"deselect"} ELSE {})
      \cup (IF mapLoaded' # mapLoaded THEN {"loadLeaflet", "mapInit"} ELSE {})
      \cup (IF filteredChanged THEN {"visible"} ELSE {})
      \cup (IF \/ filteredChanged \/ selectionChanged
               \/ zoomLevel' # zoomLevel
               \/ patternMode' # patternMode \/ patternData' # patternData
            THEN {"markers"} ELSE {})

\* updateVisibleObservations (road.old.js:1732)
VisibleWithin(filtered, bounds) ==
  SelectSeq(filtered, LAMBDA o : contains(bounds, o.lat, o.lng))

VisibleIn(filtered, map) == VisibleWithin(filtered, getBounds(map))

SameIds(prev, visible) ==
  /\ Len(prev) = Len(visible)
  /\ \A i \in DOMAIN prev : prev[i].id = visible[i].id

updateVisibleObservations(prev, filtered, map) ==
  LET visible == VisibleIn(filtered, map)
  IN  IF SameIds(prev, visible) THEN prev ELSE visible

\* A change of the map's view with the events Leaflet fires for it:
\* "zoom" -> setZoomLevel, "moveend"/"zoomend" -> the attached listener.
ViewChange(newMap) ==
  /\ mapInstance' = newMap
  /\ zoomLevel' = newMap.zoom
  /\ visibleObservations' =
       IF viewportListener = Null THEN visibleObservations
       ELSE updateVisibleObservations(visibleObservations,
                                      viewportListener.filteredData, newMap)

\* ------------------------------------------------------------------------
\* Initial state: the first render, all effects of the mount still to run
\* ------------------------------------------------------------------------
ModelCorpora == Corpora(MaxObs, ModelFields)

InitComponent ==
  /\ now = Now0
  /\ lens = "all"
  /\ timeFilter = "30d"
  /\ zoomLevel = MAP_CONFIG.initialZoom
  /\ selectedObservation = Null
  /\ expandedDetail = FALSE
  /\ sidebarOpen = TRUE
  /\ mapLoaded = FALSE
  /\ visibleObservations = <<>>
  /\ patternMode = PATTERN_MODE_NONE
  /\ patternData = Null
  /\ savedMapState = Null
  /\ filteredData = ComputeFilteredData(observations, "all", "30d", Now0)
  /\ leaflet = "absent"
  /\ mapInstance = Null
  /\ markersLayer = Null
  /\ viewportListener = Null
  /\ localPatternCircle = Null
  /\ circleLayers = 0
  /\ pending = {"deselect", "loadLeaflet", "mapInit", "visible", "markers"}
  /\ roundTrip = Null
  /\ appFilteredData = filterObservations(observations, "all", "30d", Now0)
  /\ utilCall = Null

Init ==
  /\ observations \in ModelCorpora
  /\ InitComponent

\* ------------------------------------------------------------------------
\* Effects (useEffect callbacks), run in declaration order
\* ------------------------------------------------------------------------
\* Mutant of EffectDeselect: the detail panel is left expanded
EffectDeselect_KeepsExpanded ==
  /\ IsNext("deselect")
  /\ IF /\ selectedObservation # Null
        /\ ~HasId(filteredData, selectedObservation.id)
     THEN selectedObservation' = Null
     ELSE UNCHANGED selectedObservation
  /\ UNCHANGED << filterVars, expandedDetail, sidebarOpen, patternVars, mapVars,
                  loadVars, layerVars, roundTrip, appFilteredData >>
  /\ pending' = (pending \ {"deselect"}) \cup Triggered

\* road.old.js:1620 deselect an observation that left the filtered set
EffectDeselect ==
  /\ IsNext("deselect")
  /\ IF /\ selectedObservation # Null
        /\ ~HasId(filteredData, selectedObservation.id)
     THEN /\ selectedObservation' = Null
          /\ expandedDetail' = FALSE
     ELSE UNCHANGED << selectedObservation, expandedDetail >>
  /\ UNCHANGED << filterVars, sidebarOpen, patternVars, mapVars, loadVars,
                  layerVars, roundTrip, appFilteredData >>
  /\ pending' = (pending \ {"deselect"}) \cup Triggered

\* road.old.js:1638 start loading the Leaflet scripts
EffectLoadLeaflet ==
  /\ IsNext("loadLeaflet")
  /\ leaflet' = IF mapLoaded THEN leaflet ELSE "loading"
  /\ UNCHANGED << filterVars, selectionVars, patternVars, mapVars, mapLoaded,
                  layerVars, roundTrip, appFilteredData >>
  /\ pending' = pending \ {"loadLeaflet"}

\* clusterScript.onload
LeafletLoaded ==
  /\ Idle
  /\ leaflet = "loading"
  /\ leaflet' = "loaded"
  /\ mapLoaded' = TRUE
  /\ UNCHANGED << filterVars, selectionVars, patternVars, mapVars,
                  layerVars, roundTrip, appFilteredData >>
  /\ pending' = Triggered

\* script.onerror / clusterScript.onerror
LeafletFailed ==
  /\ Idle
  /\ leaflet = "loading"
  /\ leaflet' = "failed"
  /\ UNCHANGED << filterVars, selectionVars, patternVars, mapVars, mapLoaded,
                  layerVars, roundTrip, appFilteredData, pending >>

\* road.old.js:1683 create the map once; L.map may throw, which is caught
EffectMapInit ==
  /\ IsNext("mapInit")
  /\ IF ~mapLoaded \/ mapInstance # Null
     THEN mapInstance' = mapInstance
     ELSE \/ mapInstance' = [ center |-> MAP_CONFIG.center,
                              zoom |-> MAP_CONFIG.initialZoom ]
          \/ mapInstance' = Null
  /\ UNCHANGED << filterVars, selectionVars, patternVars, zoomLevel,
                  visibleObservations, loadVars, layerVars, roundTrip,
                  appFilteredData >>
  /\ pending' = pending \ {"mapInit"}

\* Mutant of EffectVisible: the viewport is intersected with the corpus
EffectVisible_Corpus ==
  /\ IsNext("visible")
  /\ IF mapInstance = Null
     THEN UNCHANGED << viewportListener, visibleObservations >>
     ELSE /\ viewportListener' = [filteredData |-> observations]
          /\ visibleObservations' =
               updateVisibleObservations(visibleObservations, observations,
                                         mapInstance)
  /\ UNCHANGED << filterVars, selectionVars, patternVars, mapInstance,
                  zoomLevel, loadVars, markersLayer, roundTrip,
                  appFilteredData >>
  /\ pending' = pending \ {"visible"}

\* road.old.js:1727 attach the viewport listeners and evaluate once
EffectVisible ==
  /\ IsNext("visible")
  /\ IF mapInstance = Null
     THEN UNCHANGED << viewportListener, visibleObservations >>
     ELSE /\ viewportListener' = [filteredData |-> filteredData]
          /\ visibleObservations' =
               updateVisibleObservations(visibleObservations, filteredData,
                                         mapInstance)
  /\ UNCHANGED << filterVars, selectionVars, patternVars, mapInstance,
                  zoomLevel, loadVars, markersLayer, roundTrip,
                  appFilteredData >>
  /\ pending' = pending \ {"visible"}

\* road.old.js:1766 rebuild the marker layer
EffectMarkers ==
  /\ IsNext("markers")
  /\ IF mapInstance = Null
     THEN UNCHANGED markersLayer
     ELSE markersLayer' = [ observations |-> filteredData,
                            patternMode |-> patternMode ]
  /\ UNCHANGED << filterVars, selectionVars, patternVars, mapVars, loadVars,
                  viewportListener, roundTrip, appFilteredData >>
  /\ pending' = pending \ {"markers"}

\* ------------------------------------------------------------------------
\* Commands of the user interface
\* ------------------------------------------------------------------------
\* onClick={() => setLens(option.value)}
SetLens(l) ==
  /\ Idle
  /\ l # lens
  /\ lens' = l
  /\ filteredData' = ComputeFilteredData(observations, l, timeFilter, now)
  /\ UNCHANGED << corpusVars, now, timeFilter, selectionVars, patternVars,
                  mapVars, loadVars, layerVars, appFilteredData >>
  /\ roundTrip' = Null
  /\ pending' = Triggered

\* Mutant of SetTimeFilter: a change of period drops the pattern snapshot
SetTimeFilter_DropsSnapshot(tf) ==
  /\ Idle
  /\ tf # timeFilter
  /\ timeFilter' = tf
  /\ filteredData' = ComputeFilteredData(observations, lens, tf, now)
  /\ patternData' = Null
  /\ UNCHANGED << corpusVars, now, lens, selectionVars, patternMode,
                  savedMapState, localPatternCircle, circleLayers,
                  mapVars, loadVars, layerVars, appFilteredData >>
  /\ roundTrip' = Null
  /\ pending' = Triggered

\* onClick={() => setTimeFilter(value)}
SetTimeFilter(tf) ==
  /\ Idle
  /\ tf # timeFilter
  /\ timeFilter' = tf
  /\ filteredData' = ComputeFilteredData(observations, lens, tf, now)
  /\ UNCHANGED << corpusVars, now, lens, selectionVars, patternVars,
                  mapVars, loadVars, layerVars, appFilteredData >>
  /\ roundTrip' = Null
  /\ pending' = Triggered

\* Mutant of MarkerClick: the pattern-mode test is missing
MarkerClick_Unguarded(i) ==
  /\ Idle
  /\ markersLayer # Null
  /\ i \in DOMAIN markersLayer.observations
  /\ selectedObservation' = markersLayer.observations[i]
  /\ expandedDetail' = FALSE
  /\ sidebarOpen' = TRUE
  /\ UNCHANGED << filterVars, patternVars, mapVars, loadVars, layerVars,
                  appFilteredData >>
  /\ roundTrip' = Null
  /\ pending' = Triggered

\* marker.on("click", ...) of the i-th marker of the layer
MarkerClick(i) ==
  /\ Idle
  /\ markersLayer # Null
  /\ i \in DOMAIN markersLayer.observations
  /\ IF markersLayer.patternMode = PATTERN_MODE_NONE
     THEN /\ selectedObservation' = markersLayer.observations[i]
          /\ expandedDetail' = FALSE
          /\ sidebarOpen' = TRUE
     ELSE UNCHANGED selectionVars
  /\ UNCHANGED << filterVars, patternVars, mapVars, loadVars, layerVars,
                  appFilteredData >>
  /\ roundTrip' = Null
  /\ pending' = Triggered

\* onBack of ObservationDetail
Back ==
  /\ Idle
  /\ selectedObservation # Null
  /\ selectedObservation' = Null
  /\ expandedDetail' = FALSE
  /\ UNCHANGED << filterVars, sidebarOpen, patternVars, mapVars, loadVars,
                  layerVars, appFilteredData >>
  /\ roundTrip' = Null
  /\ pending' = Triggered

\* onToggleExpanded of ObservationDetail
ToggleExpanded ==
  /\ Idle
  /\ selectedObservation # Null
  /\ expandedDetail' = ~expandedDetail
  /\ UNCHANGED << filterVars, selectedObservation, sidebarOpen, patternVars,
                  mapVars, loadVars, layerVars, appFilteredData, pending >>
  /\ roundTrip' = Null

\* the user drags the map
Pan(c) ==
  /\ Idle
  /\ mapInstance # Null
  /\ c # mapInstance.center
  /\ ViewChange([center |-> c, zoom |-> mapInstance.zoom])
  /\ UNCHANGED << filterVars, selectionVars, patternVars, loadVars,
                  layerVars, appFilteredData >>
  /\ roundTrip' = Null
  /\ pending' = Triggered

\* the user zooms the map
Zoom(z) ==
  /\ Idle
  /\ mapInstance # Null
  /\ z # mapInstance.zoom
  /\ ViewChange([center |-> mapInstance.center, zoom |-> ClampZoom(z)])
  /\ UNCHANGED << filterVars, selectionVars, patternVars, loadVars,
                  layerVars, appFilteredData >>
  /\ roundTrip' = Null
  /\ pending' = Triggered

\* Date.now() advances
Tick ==
  /\ Idle
  /\ now' \in { t \in ClockValues : t > now }
  /\ UNCHANGED << corpusVars, lens, timeFilter, filteredData, selectionVars,
                  patternVars, mapVars, loadVars, layerVars, roundTrip,
                  appFilteredData, pending >>

\* ------------------------------------------------------------------------
\* PatternModeController
\* ------------------------------------------------------------------------
\* The history variable: armed by an entry made from mode NONE
Armed ==
  IF patternMode = PATTERN_MODE_NONE
  THEN [ phase |-> "entered",
         center |-> mapInstance.center,
         zoom |-> mapInstance.zoom,
         selectedObservation |-> selectedObservation,
         moved |-> mapInstance' # mapInstance ]
  ELSE Null

\* Mutant of CaptureView: the configured zoom is saved, not the map's
CaptureView_DefaultZoom(map, selected) ==
  [ center |-> map.center, zoom |-> MAP_CONFIG.initialZoom,
    selectedObservation |-> selected ]

\* Mutant of CaptureView: the selection is not saved
CaptureView_NoSelection(map, selected) ==
  [ center |-> map.center, zoom |-> map.zoom, selectedObservation |-> Null ]

\* setSavedMapState({center: map.getCenter(), zoom: map.getZoom(),
\* selectedObservation}), read from the map before the view is changed
CaptureView(map, selected) ==
  [ center |-> map.center, zoom |-> map.zoom, selectedObservation |-> selected ]

\* Mutant of CityWidePatternData: the snapshot also carries a center
CityWidePatternData_WithCenter(reference, matchingObs, stats) ==
  [ type |-> reference.type, observations |-> matchingObs, stats |-> stats,
    center |-> [lat |-> reference.lat, lng |-> reference.lng] ]

\* setPatternData of handleCityWidePattern
CityWidePatternData(reference, matchingObs, stats) ==
  [ type |-> reference.type, observations |-> matchingObs, stats |-> stats ]

\* setPatternData of handleLocalPattern
LocalPatternData(reference, nearbyObs, stats) ==
  [ type |-> reference.type, observations |-> nearbyObs, stats |-> stats,
    center |-> [lat |-> reference.lat, lng |-> reference.lng] ]

\* handleCityWidePattern (road.old.js:1866)
handleCityWidePattern ==
  /\ Idle
  /\ IF selectedObservation = Null \/ mapInstance = Null
     THEN /\ UNCHANGED << selectionVars, patternVars, mapVars >>
          /\ roundTrip' = Null
     ELSE LET matchingObs ==
                getMatchingObservations(filteredData, selectedObservation)
              timeWindowMs == TIME_WINDOWS[timeFilter].ms
              stats == calculateCityWideStats(matchingObs, timeWindowMs, now)
              bounds == getBoundsForPoints(matchingObs)
          IN  /\ savedMapState' = CaptureView(mapInstance, selectedObservation)
              /\ ViewChange(IF bounds # Null
                            THEN fitBounds(mapInstance, bounds)
                            ELSE mapInstance)
              /\ patternMode' = PATTERN_MODE_CITY_WIDE
              /\ patternData' =
                   CityWidePatternData(selectedObservation, matchingObs, stats)
              /\ selectedObservation' = Null
              /\ expandedDetail' = FALSE
              /\ UNCHANGED << sidebarOpen, localPatternCircle, circleLayers >>
              /\ roundTrip' = Armed
  /\ UNCHANGED << filterVars, loadVars, layerVars, appFilteredData >>
  /\ pending' = Triggered

\* handleLocalPattern (road.old.js:1909)
handleLocalPattern ==
  /\ Idle
  /\ IF selectedObservation = Null \/ mapInstance = Null
     THEN /\ UNCHANGED << selectionVars, patternVars, mapVars >>
          /\ roundTrip' = Null
     ELSE LET nearbyObs == NearbyMatching(filteredData, selectedObservation)
              timeWindowMs == TIME_WINDOWS[timeFilter].ms
              stats == calculateLocalStats(nearbyObs, timeWindowMs, now)
              at == [ lat |-> selectedObservation.lat,
                      lng |-> selectedObservation.lng ]
          IN  /\ savedMapState' = CaptureView(mapInstance, selectedObservation)
              /\ ViewChange(setView(mapInstance, at, mapInstance.zoom))
              /\ localPatternCircle' =
                   [ center |-> at, radius |-> MAP_CONFIG.localPatternRadius ]
              /\ circleLayers' = (IF localPatternCircle # Null
                                  THEN circleLayers - 1
                                  ELSE circleLayers) + 1
              /\ patternMode' = PATTERN_MODE_LOCAL
              /\ patternData' =
                   LocalPatternData(selectedObservation,
                                    AfterLocalStats(nearbyObs), stats)
              /\ selectedObservation' = Null
              /\ expandedDetail' = FALSE
              /\ UNCHANGED sidebarOpen
              /\ roundTrip' = Armed
  /\ UNCHANGED << filterVars, loadVars, layerVars, appFilteredData >>
  /\ pending' = Triggered

\* Mutant of handleClearPatternMode: without a saved view the selection and
\* the mode are reset all the same
handleClearPatternMode_AlwaysResets ==
  /\ Idle
  /\ IF mapInstance = Null \/ savedMapState = Null
     THEN /\ selectedObservation' = Null
          /\ patternMode' = PATTERN_MODE_NONE
          /\ patternData' = Null
          /\ UNCHANGED << expandedDetail, sidebarOpen, savedMapState,
                          localPatternCircle, circleLayers, mapVars >>
          /\ roundTrip' = Null
     ELSE /\ localPatternCircle' = Null
          /\ circleLayers' = IF localPatternCircle # Null
                            THEN circleLayers - 1 ELSE circleLayers
          /\ ViewChange(setView(mapInstance, savedMapState.center,
                                savedMapState.zoom))
          /\ selectedObservation' = savedMapState.selectedObservation
          /\ patternMode' = PATTERN_MODE_NONE
          /\ patternData' = Null
          /\ savedMapState' = Null
          /\ UNCHANGED << expandedDetail, sidebarOpen >>
          /\ roundTrip' = IF roundTrip # Null /\ roundTrip.phase = "entered"
                          THEN [roundTrip EXCEPT !.phase = "cleared"]
                          ELSE Null
  /\ UNCHANGED << filterVars, loadVars, layerVars, appFilteredData >>
  /\ pending' = Triggered

\* Mutant of handleClearPatternMode: the radius circle stays on the map
handleClearPatternMode_LeavesCircle ==
  /\ Idle
  /\ IF mapInstance = Null \/ savedMapState = Null
     THEN /\ UNCHANGED << selectionVars, patternVars, mapVars >>
          /\ roundTrip' = Null
     ELSE /\ UNCHANGED << localPatternCircle, circleLayers >>
          /\ ViewChange(setView(mapInstance, savedMapState.center,
                                savedMapState.zoom))
          /\ selectedObservation' = savedMapState.selectedObservation
          /\ patternMode' = PATTERN_MODE_NONE
          /\ patternData' = Null
          /\ savedMapState' = Null
          /\ UNCHANGED << expandedDetail, sidebarOpen >>
          /\ roundTrip' = IF roundTrip # Null /\ roundTrip.phase = "entered"
                          THEN [roundTrip EXCEPT !.phase = "cleared"]
                          ELSE Null
  /\ UNCHANGED << filterVars, loadVars, layerVars, appFilteredData >>
  /\ pending' = Triggered

\* handleClearPatternMode (road.old.js:1972)
handleClearPatternMode ==
  /\ Idle
  /\ IF mapInstance = Null \/ savedMapState = Null
     THEN /\ UNCHANGED << selectionVars, patternVars, mapVars >>
          /\ roundTrip' = Null
     ELSE /\ localPatternCircle' = Null
          /\ circleLayers' = IF localPatternCircle # Null
                            THEN circleLayers - 1 ELSE circleLayers
          /\ ViewChange(setView(mapInstance, savedMapState.center,
                                savedMapState.zoom))
          /\ selectedObservation' = savedMapState.selectedObservation
          /\ patternMode' = PATTERN_MODE_NONE
          /\ patternData' = Null
          /\ savedMapState' = Null
          /\ UNCHANGED << expandedDetail, sidebarOpen >>
          /\ roundTrip' = IF roundTrip # Null /\ roundTrip.phase = "entered"
                          THEN [roundTrip EXCEPT !.phase = "cleared"]
                          ELSE Null
  /\ UNCHANGED << filterVars, loadVars, layerVars, appFilteredData >>
  /\ pending' = Triggered

\* ------------------------------------------------------------------------
\* Specification of the component
\* ------------------------------------------------------------------------
UserZooms == {MAP_CONFIG.initialZoom, MAP_CONFIG.maxZoom}
PanCenters == {MAP_CONFIG.center, P0}

Next ==
  \/ EffectDeselect
  \/ EffectLoadLeaflet
  \/ LeafletLoaded
  \/ LeafletFailed
  \/ EffectMapInit
  \/ EffectVisible
  \/ EffectMarkers
  \/ \E l \in ModelLenses : SetLens(l)
  \/ \E tf \in ModelWindows : SetTimeFilter(tf)
  \/ \E i \in 1..MaxObs : MarkerClick(i)
  \/ Back
  \/ ToggleExpanded
  \/ \E c \in PanCenters : Pan(c)
  \/ \E z \in UserZooms : Zoom(z)
  \/ handleCityWidePattern
  \/ handleLocalPattern
  \/ handleClearPatternMode
  \/ Tick

Spec == Init /\ [][Next]_vars

\* ------------------------------------------------------------------------
\* Specification of the filter engine alone: the memoised filteredData of
\* road.old.js and filterObservations of App.js applied to the same corpus,
\* lens, period and clock
\* ------------------------------------------------------------------------
\* a timestamp ahead of the clock and one an hour inside each window
FilterStamps ==
  { Now0 + MaxFilterTicks + 1, Now0 - DayMs + 1, Now0 - 7 * DayMs + 1,
    Now0 - 30 * DayMs + 1 }

FilterCorpora ==
  Corpora(MaxFilterObs, ObsFields(ObservationTypes, {P0}, FilterStamps))

FilterInit ==
  /\ observations \in FilterCorpora
  /\ InitComponent

ApplyFilter(l, tf) ==
  /\ l # lens \/ tf # timeFilter
  /\ lens' = l
  /\ timeFilter' = tf
  /\ filteredData' = ComputeFilteredData(observations, l, tf, now)
  /\ appFilteredData' = filterObservations(observations, l, tf, now)
  /\ UNCHANGED << corpusVars, now, selectionVars, patternVars, mapVars,
                  loadVars, layerVars, roundTrip, pending >>

FilterTick ==
  /\ now < Now0 + MaxFilterTicks
  /\ now' = now + 1
  /\ UNCHANGED << corpusVars, lens, timeFilter, filteredData,
                  appFilteredData, selectionVars, patternVars, mapVars,
                  loadVars, layerVars, roundTrip, pending >>

FilterNext ==
  \/ \E l \in Lenses, tf \in TimeWindowKeys : ApplyFilter(l, tf)
  \/ FilterTick

SpecFilter == FilterInit /\ [][FilterNext]_vars

\* ------------------------------------------------------------------------
\* The utility functions applied outside the component: every variable of
\* the component keeps its initial value, utilCall records the call
\* ------------------------------------------------------------------------
componentVars ==
  << now, lens, timeFilter, filteredData, selectionVars, patternVars, mapVars,
     loadVars, layerVars, roundTrip, pending, appFilteredData >>

\* ------------------------------------------------------------------------
\* Trend specification: calculateCityWideStats and calculateLocalStats
\* applied to sets of one type and place with a observations an hour old,
\* b observations twelve hours old (the midpoint of the 24h period), d
\* observations 25 hours old (a day older than the first) and c
\* observations 400 hours old
\* ------------------------------------------------------------------------
TrendStamp(i, a, b, d) ==
  IF i <= a THEN Now0 - 1
  ELSE IF i <= a + b THEN Now0 - 12
  ELSE IF i <= a + b + d THEN Now0 - 25
  ELSE Now0 - 400

TrendCorpus(a, b, d, c) ==
  [ i \in 1..(a + b + d + c) |->
      MkObservation(i, [ type |-> "violation", pos |-> P0,
                         timestamp |-> TrendStamp(i, a, b, d) ]) ]

TrendCorpora ==
  { TrendCorpus(a, b, d, c) :
      a \in 0..MaxTrendCount, b \in {0, 1}, d \in {0, 1},
      c \in 0..MaxTrendCount }

TrendInit ==
  /\ observations \in TrendCorpora
  /\ InitComponent

EvalCityWideStats(tf) ==
  /\ utilCall' =
       [ fn |-> "calculateCityWideStats",
         timeWindowMs |-> TIME_WINDOWS[tf].ms,
         result |-> calculateCityWideStats(observations,
                                           TIME_WINDOWS[tf].ms, now) ]
  /\ UNCHANGED << observations, componentVars >>

EvalLocalStats(tf) ==
  /\ utilCall' =
       [ fn |-> "calculateLocalStats",
         timeWindowMs |-> TIME_WINDOWS[tf].ms,
         result |-> calculateLocalStats(observations,
                                        TIME_WINDOWS[tf].ms, now) ]
  /\ UNCHANGED << observations, componentVars >>

TrendNext ==
  \/ \E tf \in TimeWindowKeys : EvalCityWideStats(tf)
  \/ \E tf \in TimeWindowKeys : EvalLocalStats(tf)

SpecTrend == TrendInit /\ [][TrendNext]_vars

\* ------------------------------------------------------------------------
\* Local analysis specification: the analysis of handleLocalPattern applied
\* to filtered sets of two types over four places, which lie 0, 150.1,
\* 200 and 250.2 m from P0, for a reference inside or outside the set
\* ------------------------------------------------------------------------
LocalFields == ObsFields({"violation", "risk"}, {P0, P1, P2, P3}, {Now0})

LocalCorpora == Corpora(MaxLocalObs, LocalFields)

LocalInit ==
  /\ observations \in LocalCorpora
  /\ InitComponent

LocalReferences ==
  Range(observations) \cup { MkObservation(0, f) : f \in LocalFields }

AnalyzeLocal(reference) ==
  LET nearbyObs == NearbyMatching(observations, reference)
      stats == calculateLocalStats(nearbyObs, TIME_WINDOWS[timeFilter].ms, now)
  IN  /\ utilCall' = [ fn |-> "handleLocalPattern",
                       reference |-> reference,
                       result |-> LocalPatternData(reference,
                                                   AfterLocalStats(nearbyObs),
                                                   stats) ]
      /\ UNCHANGED << observations, componentVars >>

LocalNext == \E reference \in LocalReferences : AnalyzeLocal(reference)

SpecLocal == LocalInit /\ [][LocalNext]_vars

\* ------------------------------------------------------------------------
\* App.js component specification: lens, period, selection, detail and
\* sidebar state of RoadCommonsTransparency in App.js; filteredData is
\* recomputed by filterObservations() in every render
\* ------------------------------------------------------------------------
AppCorpora == Corpora(MaxAppObs, ModelFields)

AppInit ==
  /\ observations \in AppCorpora
  /\ InitComponent

appUnchanged ==
  << corpusVars, now, filteredData, patternVars, mapVars, loadVars,
     layerVars, roundTrip, pending >>

\* lens button: setLens(option.value)
AppSetLens(l) ==
  /\ lens' = l
  /\ appFilteredData' = filterObservations(observations, l, timeFilter, now)
  /\ UNCHANGED << timeFilter, selectionVars, appUnchanged >>

\* period button: setTimeFilter(option.value)
AppSetTimeFilter(tf) ==
  /\ timeFilter' = tf
  /\ appFilteredData' = filterObservations(observations, lens, tf, now)
  /\ UNCHANGED << lens, selectionVars, appUnchanged >>

\* click on the CircleMarker of an observation of filteredData
AppMarkerClick(obs) ==
  /\ obs \in Range(appFilteredData)
  /\ selectedObservation' = obs
  /\ expandedDetail' = FALSE
  /\ sidebarOpen' = TRUE
  /\ UNCHANGED << lens, timeFilter, appFilteredData, appUnchanged >>

\* the two detail buttons of the panel of a selected observation
AppSetExpandedDetail(b) ==
  /\ selectedObservation # Null
  /\ sidebarOpen
  /\ expandedDetail = ~b
  /\ expandedDetail' = b
  /\ UNCHANGED << lens, timeFilter, appFilteredData, selectedObservation,
                  sidebarOpen, appUnchanged >>

\* the close and open buttons of the sidebar
AppSetSidebarOpen(b) ==
  /\ sidebarOpen = ~b
  /\ sidebarOpen' = b
  /\ UNCHANGED << lens, timeFilter, appFilteredData, selectedObservation,
                  expandedDetail, appUnchanged >>

AppNext ==
  \/ \E l \in Lenses : AppSetLens(l)
  \/ \E tf \in TimeWindowKeys : AppSetTimeFilter(tf)
  \/ \E obs \in Range(observations) : AppMarkerClick(obs)
  \/ \E b \in BOOLEAN : AppSetExpandedDetail(b)
  \/ \E b \in BOOLEAN : AppSetSidebarOpen(b)

SpecApp == AppInit /\ [][AppNext]_vars

\* ------------------------------------------------------------------------
\* Viewport specification: the filter of updateVisibleObservations applied
\* to sets of observations under bounds of positive and of zero area, with
\* observations inside, outside and on the edges
\* ------------------------------------------------------------------------
ViewportCorpora ==
  Corpora(MaxViewportObs, ObsFields({"violation"}, {P0, P2, P3}, {Now0}))

ViewportLats == {P0.lat, P3.lat, P2.lat}
ViewportLngs == {P0.lng - 100, P0.lng, P3.lng}

ViewportBounds ==
  { b \in [south : ViewportLats, north : ViewportLats,
           west : ViewportLngs, east : ViewportLngs] :
      b.south <= b.north /\ b.west <= b.east }

ViewportInit ==
  /\ observations \in ViewportCorpora
  /\ InitComponent

EvalVisible(bounds) ==
  /\ utilCall' = [ fn |-> "updateVisibleObservations",
                   bounds |-> bounds,
                   result |-> VisibleWithin(observations, bounds) ]
  /\ UNCHANGED << observations, componentVars >>

ViewportNext == \E bounds \in ViewportBounds : EvalVisible(bounds)

SpecViewport == ViewportInit /\ [][ViewportNext]_vars

\* ------------------------------------------------------------------------
\* Statistics specification: calculateObservationStats applied to sets of
\* observations of every type, pending or resolved, without a response
\* time or with one of 0, 2 or 5 days
\* ------------------------------------------------------------------------
StatsObservation(i, type, status) ==
  [ id |-> i, type |-> type, lat |-> P0.lat, lng |-> P0.lng,
    timestamp |-> Now0, status |-> status ]

WithResponseTime(o, days) ==
  [ f \in DOMAIN o \cup {"response_time"} |->
      IF f = "response_time" THEN days ELSE o[f] ]

StatsObservations(i) ==
  LET plain == { StatsObservation(i, type, status) :
                   type \in ObservationTypes,
                   status \in {"pending", "resolved"} }
  IN  plain \cup { WithResponseTime(o, days) : o \in plain, days \in {0, 2, 5} }

StatsCorpora ==
  UNION { { s \in [1..k -> UNION { StatsObservations(i) : i \in 1..k }] :
              \A i \in 1..k : s[i].id = i }
          : k \in 0..MaxStatsObs }

StatsInit ==
  /\ observations \in StatsCorpora
  /\ InitComponent

EvalObservationStats ==
  /\ utilCall' = [ fn |-> "calculateObservationStats",
                   result |-> calculateObservationStats(observations) ]
  /\ UNCHANGED << observations, componentVars >>

EvalCalculateStats ==
  /\ utilCall' = [ fn |-> "calculateStats",
                   result |-> calculateStats(observations) ]
  /\ UNCHANGED << observations, componentVars >>

StatsNext == EvalObservationStats \/ EvalCalculateStats

SpecStats == StatsInit /\ [][StatsNext]_vars

\* ------------------------------------------------------------------------
\* Cluster specification: the two icon functions applied to clusters of 0
\* to MaxClusterCount markers
\* ------------------------------------------------------------------------
ClusterInit ==
  /\ observations = <<>>
  /\ InitComponent

EvalClusterIcon(count) ==
  /\ utilCall' = [ fn |-> "iconCreateFunction", count |-> count,
                   result |-> iconCreateFunction(count) ]
  /\ UNCHANGED << observations, componentVars >>

EvalInlineClusterIcon(count) ==
  /\ utilCall' = [ fn |-> "inlineIconCreateFunction", count |-> count,
                   result |-> inlineIconCreateFunction(count) ]
  /\ UNCHANGED << observations, componentVars >>

ClusterNext ==
  \/ \E count \in 0..MaxClusterCount : EvalClusterIcon(count)
  \/ \E count \in 0..MaxClusterCount : EvalInlineClusterIcon(count)

SpecCluster == ClusterInit /\ [][ClusterNext]_vars

\* ========================================================================
\* Properties
\* ========================================================================
IsIn(o, s) == o \in Range(s)

\* C1: selection and pattern mode are mutually exclusive: whenever a pattern
\* mode is active no observation is selected (a marker click made in a
\* pattern mode therefore leaves the selection empty).
C1_MutualExclusion ==
  patternMode # PATTERN_MODE_NONE => selectedObservation = Null

\* a pattern mode is active and its markers are on the map, ready for a click
C1_Witness ==
  /\ Idle
  /\ patternMode # PATTERN_MODE_NONE
  /\ markersLayer # Null
  /\ markersLayer.patternMode = patternMode
  /\ Len(markersLayer.observations) > 0

\* C2: mode, snapshot and saved view agree: the mode is NONE exactly when
\* there is no snapshot and exactly when there is no saved view, and a
\* snapshot carries a center exactly when the mode is LOCAL.
C2_SnapshotConsistency ==
  /\ (patternMode = PATTERN_MODE_NONE) <=> (patternData = Null)
  /\ (patternMode = PATTERN_MODE_NONE) <=> (savedMapState = Null)
  /\ patternMode \in PATTERN_MODE
  /\ patternData # Null =>
       (("center" \in DOMAIN patternData) <=> (patternMode = PATTERN_MODE_LOCAL))
  /\ savedMapState # Null =>
       DOMAIN savedMapState = {"center", "zoom", "selectedObservation"}

C2_Witness ==
  /\ patternMode = PATTERN_MODE_CITY_WIDE
  /\ Len(patternData.observations) > 1
  /\ savedMapState.selectedObservation # Null

\* C3: an entry made in mode NONE with a selected observation R and a map
\* saves the center and zoom the map had before the entry together with R,
\* stores the snapshot (type of R, the matched observations, their stats,
\* and for LOCAL the position of R, matched and drawn with the 200 m
\* radius), clears the selection and collapses the detail panel.
EntryReady ==
  /\ Idle
  /\ patternMode = PATTERN_MODE_NONE
  /\ selectedObservation # Null
  /\ mapInstance # Null

EntryCommon ==
  /\ savedMapState' = [ center |-> mapInstance.center,
                        zoom |-> mapInstance.zoom,
                        selectedObservation |-> selectedObservation ]
  /\ patternData'.type = selectedObservation.type
  /\ selectedObservation' = Null
  /\ expandedDetail' = FALSE

CityWideEntryPost ==
  /\ EntryCommon
  /\ patternMode' = PATTERN_MODE_CITY_WIDE
  /\ DOMAIN patternData' = {"type", "observations", "stats"}
  /\ patternData'.observations =
       SelectSeq(filteredData, LAMBDA o : o.type = selectedObservation.type)
  /\ patternData'.stats =
       calculateCityWideStats(patternData'.observations,
                              TIME_WINDOWS[timeFilter].ms, now)
  /\ localPatternCircle' = Null

LocalEntryPost ==
  /\ EntryCommon
  /\ patternMode' = PATTERN_MODE_LOCAL
  /\ DOMAIN patternData' = {"type", "observations", "stats", "center"}
  /\ patternData'.center = [ lat |-> selectedObservation.lat,
                             lng |-> selectedObservation.lng ]
  /\ patternData'.observations =
       SelectSeq(filteredData, LAMBDA o :
         /\ o.type = selectedObservation.type
         /\ getDistance(selectedObservation.lat, selectedObservation.lng,
                        o.lat, o.lng) <= 200 * 1000)
  /\ patternData'.stats =
       calculateLocalStats(patternData'.observations,
                           TIME_WINDOWS[timeFilter].ms, now)
  /\ localPatternCircle' = [ center |-> patternData'.center, radius |-> 200 ]
  /\ mapInstance'.center = patternData'.center

C3_EntryTransition ==
  [][ /\ (EntryReady /\ handleCityWidePattern) => CityWideEntryPost
      /\ (EntryReady /\ handleLocalPattern) => LocalEntryPost ]_vars

\* just after an entry that moved the map away from the saved view
C3_Witness ==
  /\ patternMode # PATTERN_MODE_NONE
  /\ roundTrip # Null
  /\ roundTrip.phase = "entered"
  /\ roundTrip.moved
  /\ savedMapState.zoom # mapInstance.zoom
  /\ savedMapState.center # mapInstance.center

\* C4: an entry from mode NONE followed at once by clearPattern ends in
\* mode NONE with no snapshot and no saved view, the map back at the center
\* and zoom it had before the entry, and the same observation selected.
C4_RoundTrip ==
  (roundTrip # Null /\ roundTrip.phase = "cleared") =>
    /\ patternMode = PATTERN_MODE_NONE
    /\ patternData = Null
    /\ savedMapState = Null
    /\ mapInstance.center = roundTrip.center
    /\ mapInstance.zoom = roundTrip.zoom
    /\ selectedObservation = roundTrip.selectedObservation
    /\ selectedObservation # Null

\* the round trip is complete, its effects have run, and the entry had
\* moved the map
C4_Witness ==
  /\ Idle
  /\ roundTrip # Null
  /\ roundTrip.phase = "cleared"
  /\ roundTrip.moved
  /\ roundTrip.zoom # MAP_CONFIG.initialZoom

\* C5: clearPattern leaves no saved view behind, and invoked without a
\* saved view (mode NONE) it changes nothing; a second clearPattern is
\* therefore without effect.
C5_ClearIdempotent ==
  [][ handleClearPatternMode =>
        /\ savedMapState' = Null
        /\ patternMode' = PATTERN_MODE_NONE
        /\ savedMapState = Null =>
             UNCHANGED << patternMode, patternData, savedMapState,
                          selectedObservation, expandedDetail, mapInstance,
                          zoomLevel, visibleObservations, localPatternCircle,
                          filteredData, pending >> ]_vars

\* clearPattern has just run and restored the view and the selection: a
\* second clearPattern here is the no-op
C5_Witness ==
  /\ roundTrip # Null
  /\ roundTrip.phase = "cleared"
  /\ roundTrip.moved
  /\ patternMode = PATTERN_MODE_NONE
  /\ savedMapState = Null
  /\ localPatternCircle = Null
  /\ selectedObservation # Null

\* C6: an entry invoked while a snapshot is active, or with no observation
\* selected, changes neither the mode, the snapshot, the saved view, the
\* selection nor the map view.
C6_MisuseKeepsState ==
  [][ ( /\ handleCityWidePattern \/ handleLocalPattern
        /\ patternMode # PATTERN_MODE_NONE \/ selectedObservation = Null )
      => UNCHANGED << patternMode, patternData, savedMapState,
                      selectedObservation, mapInstance, localPatternCircle >>
    ]_vars

\* a snapshot is active, the map has been moved since the entry, and the
\* entry handlers can be invoked again
C6_Witness ==
  /\ Idle
  /\ patternMode = PATTERN_MODE_CITY_WIDE
  /\ mapInstance # Null
  /\ roundTrip = Null
  /\ markersLayer # Null
  /\ Len(markersLayer.observations) > 0

\* C7: once the effects have run, the selected observation (if any) is in
\* the filtered set; and when the deselect effect drops a selection it also
\* collapses the detail panel.
C7_NoDanglingSelection ==
  /\ [](Idle => (selectedObservation = Null
                 \/ HasId(filteredData, selectedObservation.id)))
  /\ [][ (selectedObservation # Null /\ selectedObservation' = Null
          /\ "deselect" \in pending)
         => expandedDetail' = FALSE ]_vars

\* clearPattern has just restored a selection that a lens or period change
\* made in pattern mode had removed from the filtered set
C7_Witness ==
  /\ "deselect" \in pending
  /\ patternMode = PATTERN_MODE_NONE
  /\ selectedObservation # Null
  /\ ~HasId(filteredData, selectedObservation.id)
  /\ markersLayer # Null
  /\ markersLayer.patternMode # PATTERN_MODE_NONE

\* C8 as stated: in every reachable state the visible observations are
\* among the filtered ones and the filtered ones among the corpus.
SubsetChain ==
  /\ \A i \in DOMAIN visibleObservations :
       IsIn(visibleObservations[i], filteredData)
  /\ \A i \in DOMAIN filteredData : IsIn(filteredData[i], observations)

C8_SubsetChainEveryState == SubsetChain

\* C8: the filtered observations are always among the corpus, and once the
\* viewport effect of the last lens or period change has run the visible
\* observations are among the filtered ones.
C8_SubsetChain ==
  /\ \A i \in DOMAIN filteredData : IsIn(filteredData[i], observations)
  /\ "visible" \notin pending =>
       \A i \in DOMAIN visibleObservations :
         IsIn(visibleObservations[i], filteredData)

\* the viewport effect has run after a lens change: some but not all of
\* the filtered observations are visible
C8_Witness ==
  /\ Idle
  /\ lens # "all"
  /\ viewportListener # Null
  /\ viewportListener.filteredData = filteredData
  /\ Len(visibleObservations) > 0
  /\ Len(visibleObservations) < Len(filteredData)

\* C9: a recomputation of the filter keeps exactly the observations whose
\* type passes the lens and whose age is below the span of the period, in
\* corpus order; an observation stamped after the clock passes every
\* period, and an empty corpus gives an empty result.  The same holds of
\* filterObservations of App.js.
Keeps(o, l, tf, t) ==
  /\ l = "all" \/ o.type = l
  /\ \/ tf = "persistent"
     \/ /\ tf = "24h" => t - o.timestamp < DayMs
        /\ tf = "7d" => t - o.timestamp < 7 * DayMs
        /\ tf = "30d" => t - o.timestamp < 30 * DayMs

C9_FilterPredicate ==
  [][ (lens' # lens \/ timeFilter' # timeFilter) =>
        LET expected ==
              SelectSeq(observations,
                        LAMBDA o : Keeps(o, lens', timeFilter', now))
        IN  /\ filteredData' = expected
            /\ appFilteredData' = expected
            /\ \A i \in DOMAIN observations :
                 ( /\ observations[i].timestamp > now
                   /\ lens' \in {"all", observations[i].type} )
                 => IsIn(observations[i], filteredData')
            /\ observations = <<>> => filteredData' = <<>> ]_vars

\* the filter has kept an observation stamped after the clock and dropped
\* one whose age equals the span of the period
C9_Witness ==
  /\ timeFilter = "24h"
  /\ \E i \in DOMAIN observations :
       /\ observations[i].timestamp > now
       /\ IsIn(observations[i], filteredData)
  /\ \E i \in DOMAIN observations :
       /\ now - observations[i].timestamp = DayMs
       /\ lens \in {"all", observations[i].type}
       /\ ~IsIn(observations[i], filteredData)

\* C10: for the corpus, lens and clock of any state, the filtered set of a
\* shorter period is contained in that of every longer period.
WindowRank ==
  [ k \in TimeWindowKeys |->
      CASE k = "24h" -> 1 [] k = "7d" -> 2 [] k = "30d" -> 3
        [] k = "persistent" -> 4 ]

C10_WindowMonotone ==
  \A l \in Lenses, w1 \in TimeWindowKeys, w2 \in TimeWindowKeys :
    WindowRank[w1] < WindowRank[w2] =>
      Range(ComputeFilteredData(observations, l, w1, now))
        \subseteq Range(ComputeFilteredData(observations, l, w2, now))

\* the stored filtered set of the 7d period strictly contains the
\* non-empty one of the 24h period and is not the whole corpus
C10_Witness ==
  /\ timeFilter = "7d"
  /\ filteredData = ComputeFilteredData(observations, lens, "7d", now)
  /\ Range(ComputeFilteredData(observations, lens, "24h", now))
       # Range(filteredData)
  /\ Range(ComputeFilteredData(observations, lens, "24h", now)) # {}
  /\ now > Now0

\* C11: the trend of both statistics is increasing exactly when the
\* observations newer than the midpoint of the period number more than 1.2
\* times the others, declining exactly when they number fewer than 0.8
\* times the others, and stable otherwise; 12 against 8 is increasing, 8
\* against 12 declining, 10 against 10 stable, some against none
\* increasing, none against none stable; and both statistics give the same
\* trend for the same set and period.
NewerThanMidpoint(timeWindowMs) ==
  Cardinality({ i \in DOMAIN observations :
                  2 * observations[i].timestamp > 2 * now - timeWindowMs })

TrendRule(trend, r, o) ==
  /\ trend \in {"increasing", "declining", "stable"}
  /\ trend = "increasing" <=> 10 * r > 12 * o
  /\ trend = "declining" <=> 10 * r < 8 * o
  /\ (r = 12 /\ o = 8) => trend = "increasing"
  /\ (r = 8 /\ o = 12) => trend = "declining"
  /\ (r = 10 /\ o = 10) => trend = "stable"
  /\ (r > 0 /\ o = 0) => trend = "increasing"
  /\ (r = 0 /\ o = 0) => trend = "stable"

SameTypeIn(filtered, reference) ==
  { o \in Range(filtered) : o.type = reference.type }

InOrderOf(matched, filtered) ==
  \A i, j \in DOMAIN matched :
    i < j => \E k, l \in DOMAIN filtered :
               k < l /\ filtered[k] = matched[i] /\ filtered[l] = matched[j]

C12_CityWideMatching ==
  [][ ( /\ selectedObservation # Null
        /\ mapInstance # Null
        /\ handleCityWidePattern )
      => /\ Range(patternData'.observations)
              = SameTypeIn(filteredData, selectedObservation)
         /\ Range(patternData'.observations) \subseteq Range(filteredData)
         /\ InOrderOf(patternData'.observations, filteredData)
         /\ Len(patternData'.observations)
              = Cardinality(SameTypeIn(filteredData, selectedObservation))
         /\ patternData'.stats.total
              = Cardinality(SameTypeIn(filteredData, selectedObservation)) ]_vars

\* just after a city-wide entry that matched one of two filtered
\* observations
C12_Witness ==
  /\ patternMode = PATTERN_MODE_CITY_WIDE
  /\ roundTrip # Null
  /\ roundTrip.phase = "entered"
  /\ Len(filteredData) = 2
  /\ Len(patternData.observations) = 1
  /\ patternData.stats.total = 1
  /\ patternData.observations[1] = filteredData[2]

\* C14: calculateLocalStats returns null exactly when the matched set is
\* empty, and otherwise a record whose count is the size of the set and
\* whose time span was taken over at least one timestamp.
C14_LocalStatsNullIffEmpty ==
  (utilCall # Null /\ utilCall.fn = "calculateLocalStats") =>
    /\ utilCall.result = Null <=> observations = <<>>
    /\ utilCall.result # Null =>
         /\ utilCall.result.count = Len(observations)
         /\ utilCall.result.count > 0
         /\ DOMAIN utilCall.result = {"count", "timeSpanDays", "trend"}

\* calculateLocalStats has been applied to the empty set
C14_Witness ==
  /\ utilCall # Null
  /\ utilCall.fn = "calculateLocalStats"
  /\ observations = <<>>
  /\ utilCall.result = Null

\* C15: for a non-empty matched set timeSpanDays is the least number of
\* whole days covering the span from the oldest to the newest timestamp:
\* 0 when all timestamps are equal, 1 for a positive span of at most a
\* day, never negative.
StampsOf(obs) == { obs[i].timestamp : i \in DOMAIN obs }

C15_TimeSpanDays ==
  (utilCall # Null /\ utilCall.fn = "calculateLocalStats"
     /\ observations # <<>>) =>
    LET span == MaxOf(StampsOf(observations)) - MinOf(StampsOf(observations))
        days == utilCall.result.timeSpanDays
    IN  /\ days >= 0
        /\ days * DayMs >= span
        /\ days > 0 => (days - 1) * DayMs < span
        /\ span = 0 <=> days = 0
        /\ (span > 0 /\ span <= DayMs) => days = 1

\* the local statistics of a set whose timestamps span exactly one day
C15_Witness ==
  /\ utilCall # Null
  /\ utilCall.fn = "calculateLocalStats"
  /\ observations # <<>>
  /\ MaxOf(StampsOf(observations)) - MinOf(StampsOf(observations)) = DayMs
  /\ utilCall.result.timeSpanDays = 1

\* C13: the local analysis of a filtered set F for a reference R matches
\* exactly the observations of F that have the type of R and lie within
\* 200 m of R, the distance of exactly 200 m included; of two candidates
\* of R's type at 150 m and 250 m only the nearer is matched; an
\* observation of another type is never matched.
WithinRadius(reference, o) ==
  getDistance(reference.lat, reference.lng, o.lat, o.lng) <= 200000

AtDistance(reference, o, mm) ==
  getDistance(reference.lat, reference.lng, o.lat, o.lng) = mm

C13_LocalMatching ==
  (utilCall # Null /\ utilCall.fn = "handleLocalPattern") =>
    LET R == utilCall.reference
        matched == utilCall.result.observations
    IN  /\ Range(matched) =
             { o \in Range(observations) :
                 o.type = R.type /\ WithinRadius(R, o) }
        /\ InOrderOf(matched, observations)
        /\ \A o \in Range(observations) :
             /\ (o.type = R.type /\ AtDistance(R, o, 200000)) => IsIn(o, matched)
             /\ (o.type = R.type /\ AtDistance(R, o, 150113)) => IsIn(o, matched)
             /\ AtDistance(R, o, 250189) => ~IsIn(o, matched)
             /\ o.type # R.type => ~IsIn(o, matched)
        /\ IsIn(R, observations) => IsIn(R, matched)

\* the analysis of candidates of the reference's type at 150 m, at
\* exactly 200 m and at 250 m: the first two are matched
C13_Witness ==
  /\ utilCall # Null
  /\ utilCall.fn = "handleLocalPattern"
  /\ Len(utilCall.result.observations) = 2
  /\ \E i, j, k \in DOMAIN observations :
       /\ observations[i].type = utilCall.reference.type
       /\ observations[j].type = utilCall.reference.type
       /\ observations[k].type = utilCall.reference.type
       /\ AtDistance(utilCall.reference, observations[i], 150113)
       /\ AtDistance(utilCall.reference, observations[j], 200000)
       /\ AtDistance(utilCall.reference, observations[k], 250189)
       /\ IsIn(observations[i], utilCall.result.observations)
       /\ IsIn(observations[j], utilCall.result.observations)

\* C16: the statistics of a set of observations of the three types count
\* every observation once: total is the size of the set and the three
\* counts by type add up to it.
CountOfType(type) ==
  Cardinality({ i \in DOMAIN observations : observations[i].type = type })

C16_ByTypeSumsToTotal ==
  (utilCall # Null /\ utilCall.fn = "calculateObservationStats") =>
    LET stats == utilCall.result
    IN  /\ stats.total = Len(observations)
        /\ stats.byType.violation = CountOfType("violation")
        /\ stats.byType.risk = CountOfType("risk")
        /\ stats.byType.infrastructure = CountOfType("infrastructure")
        /\ stats.byType.violation + stats.byType.risk
             + stats.byType.infrastructure = stats.total

\* the statistics of a set holding every type
C16_Witness ==
  /\ utilCall # Null
  /\ utilCall.fn = "calculateObservationStats"
  /\ utilCall.result.byType.violation = 1
  /\ utilCall.result.byType.risk = 1
  /\ utilCall.result.byType.infrastructure = 1

\* C17: reviewRate is the percentage of observations whose status is not
\* pending, written with one decimal: the nearest tenth, between 0.0 and
\* 100.0, and "0.0" for the empty set.
ReviewedCount ==
  Cardinality({ i \in DOMAIN observations :
                  observations[i].status # "pending" })

C17_ReviewRate ==
  (utilCall # Null /\ utilCall.fn = "calculateObservationStats") =>
    LET total == Len(observations)
        rate == utilCall.result.reviewRate
    IN  /\ total = 0 => rate = "0.0"
        /\ total > 0 =>
             LET below == (1000 * ReviewedCount) \div total
             IN  \E tenths \in {below, below + 1} :
                   /\ tenths \in 0..1000
                   /\ 2 * (tenths * total - 1000 * ReviewedCount) <= total
                   /\ 2 * (1000 * ReviewedCount - tenths * total) <= total
                   /\ rate = ToFixed1(tenths)

\* the statistics of three observations of which two are reviewed
C17_Witness ==
  /\ utilCall # Null
  /\ utilCall.fn = "calculateObservationStats"
  /\ Len(observations) = 3
  /\ ReviewedCount = 2
  /\ utilCall.result.reviewRate = "66.7"

\* C18: avgResponseTime is the mean response time of the observations
\* that have a positive response time, rounded to the nearest integer,
\* and 0 when there is none; the other observations count neither in the
\* sum nor in the number divided by.
Responded ==
  { i \in DOMAIN observations :
      "response_time" \in DOMAIN observations[i]
        /\ observations[i].response_time > 0 }

RECURSIVE ResponseSum(_)
ResponseSum(I) ==
  IF I = {} THEN 0
  ELSE LET i == CHOOSE j \in I : TRUE
       IN  observations[i].response_time + ResponseSum(I \ {i})

C18_AvgResponseTime ==
  (utilCall # Null /\ utilCall.fn = "calculateObservationStats") =>
    LET avg == utilCall.result.avgResponseTime
        n == Cardinality(Responded)
        sum == ResponseSum(Responded)
    IN  /\ n = 0 => avg = 0
        /\ n > 0 => /\ 2 * (avg * n - sum) <= n
                     /\ 2 * (sum - avg * n) <= n

\* the statistics of a set with response times 2 and 5 and an observation
\* without one: the mean 3.5 is rounded to 4
C18_Witness ==
  /\ utilCall # Null
  /\ utilCall.fn = "calculateObservationStats"
  /\ Len(observations) = 3
  /\ Cardinality(Responded) = 2
  /\ ResponseSum(Responded) = 7
  /\ utilCall.result.avgResponseTime = 4

\* C19: a cluster of more than 50 markers is large, one of 11 to 50 is
\* medium and any smaller one is small; a small, medium or large icon is
\* 32, 40 or 50 px wide and high with a 12, 14 or 16 px font; and the
\* earlier component's inline sizing gives the same tier and size for
\* every count.
TierRule(count, icon) ==
  /\ icon.size = "large" <=> count > 50
  /\ icon.size = "medium" <=> (10 < count /\ count <= 50)
  /\ icon.size = "small" <=> count <= 10
  /\ count = 10 => icon.size = "small"
  /\ count = 11 => icon.size = "medium"
  /\ count = 50 => icon.size = "medium"
  /\ count = 51 => icon.size = "large"
  /\ icon.size = "small" =>
       icon.dims = [width |-> 32, height |-> 32, fontSize |-> "12px"]
  /\ icon.size = "medium" =>
       icon.dims = [width |-> 40, height |-> 40, fontSize |-> "14px"]
  /\ icon.size = "large" =>
       icon.dims = [width |-> 50, height |-> 50, fontSize |-> "16px"]

C19_ClusterTiers ==
  /\ (utilCall # Null /\ utilCall.fn \in {"iconCreateFunction",
                                            "inlineIconCreateFunction"}) =>
       TierRule(utilCall.count, utilCall.result)
  /\ \A count \in 0..MaxClusterCount :
       inlineIconCreateFunction(count) = iconCreateFunction(count)

\* the icon of a cluster of 50 markers, the largest medium one
C19_Witness ==
  /\ utilCall # Null
  /\ utilCall.fn = "iconCreateFunction"
  /\ utilCall.count = 50
  /\ utilCall.result.size = "medium"
  /\ utilCall.result.dims.width = 40

\* C20: no step changes the corpus or a field of one of its records; the
\* filtered set and a snapshot's matched set hold records of the corpus;
\* and a local entry, whose statistics sort the timestamps, leaves the
\* filtered set as it was and stores the matched set in its order.
C20_CorpusImmutable ==
  [][ /\ observations' = observations
      /\ Range(filteredData') \subseteq Range(observations)
      /\ patternData' # Null =>
           Range(patternData'.observations) \subseteq Range(observations)
      /\ ( /\ selectedObservation # Null
           /\ mapInstance # Null
           /\ handleLocalPattern \/ handleCityWidePattern )
         => /\ filteredData' = filteredData
            /\ InOrderOf(patternData'.observations, filteredData) ]_vars

\* just after a local entry that matched a newer observation followed by
\* an older one
C20_Witness ==
  /\ patternMode = PATTERN_MODE_LOCAL
  /\ roundTrip # Null
  /\ roundTrip.phase = "entered"
  /\ Len(patternData.observations) = 2
  /\ patternData.observations[1].timestamp
       > patternData.observations[2].timestamp
  /\ patternData.observations = filteredData

\* C21: the distance is the same in both directions, and the distance
\* from a point to itself is 0.
ModelPoints == {P0, P1, P2, P3}

C22_ViewportReevaluated ==
  [][ /\ (mapInstance # Null /\ mapInstance' # mapInstance) =>
           SameIds(visibleObservations', VisibleIn(filteredData', mapInstance'))
      /\ (mapInstance # Null /\ "visible" \in pending
            /\ "visible" \notin pending') =>
           SameIds(visibleObservations', VisibleIn(filteredData', mapInstance'))
    ]_vars

\* The statistics shown in the header and the summary: the useMemo takes
\* visibleObservations when it is non-empty and filteredData otherwise.
stats ==
  LET dataToUse == IF Len(visibleObservations) > 0
                   THEN visibleObservations
                   ELSE filteredData
  IN  calculateObservationStats(dataToUse)

\* C23 as stated: once the viewport listener is registered and no effect is
\* pending, the statistics shown equal calculateObservationStats of the
\* filtered observations inside the current viewport, also when none of a
\* non-empty filtered set is in view (total 0, reviewRate "0.0").
C23_StatsFollowVisible ==
  (Idle /\ mapInstance # Null /\ viewportListener # Null) =>
    stats = calculateObservationStats(VisibleIn(filteredData, mapInstance))

ZeroArea(bounds) ==
  bounds.south = bounds.north \/ bounds.west = bounds.east

OnBoundary(o, bounds) ==
  /\ contains(bounds, o.lat, o.lng)
  /\ \/ o.lat = bounds.south \/ o.lat = bounds.north
     \/ o.lng = bounds.west \/ o.lng = bounds.east

\* C24 as stated: under bounds of zero area the visible set is empty, also
\* when an observation lies on the degenerate rectangle; under bounds of
\* positive area every observation on the boundary is in the visible set.
C24_ZeroAreaViewport ==
  (utilCall # Null /\ utilCall.fn = "updateVisibleObservations") =>
    /\ ZeroArea(utilCall.bounds) => utilCall.result = <<>>
    /\ ~ZeroArea(utilCall.bounds) =>
         \A i \in DOMAIN observations :
           OnBoundary(observations[i], utilCall.bounds) =>
             IsIn(observations[i], utilCall.result)

\* C25 as stated: calculateStats of App.js applied to an empty filtered set
\* yields total 0, avgResponseTime 0 and reviewRate "0.0", and applied to
\* any filtered set of generated observations (each with a response time of
\* at least one day) it returns what calculateObservationStats returns.
C25_AppStatsAgree ==
  (utilCall # Null /\ utilCall.fn = "calculateStats") =>
    /\ observations = <<>> =>
         /\ utilCall.result.total = 0
         /\ utilCall.result.avgResponseTime = 0
         /\ utilCall.result.reviewRate = "0.0"
    /\ (\A i \in DOMAIN observations : HasResponseTime(observations[i])) =>
         utilCall.result = calculateObservationStats(observations)

\* What does hold: on every non-empty filtered set of generated observations
\* the two functions return equal results.
C25_AppStatsAgreeNonEmpty ==
  (utilCall # Null /\ utilCall.fn = "calculateStats"
     /\ observations # <<>>
     /\ \A i \in DOMAIN observations : HasResponseTime(observations[i])) =>
    utilCall.result = calculateObservationStats(observations)

\* C26 as stated: in the App.js component the selected observation is null
\* or a member of the current filteredData after any sequence of marker
\* clicks and lens or period changes.
C26_AppNoDanglingSelection ==
  selectedObservation = Null \/ IsIn(selectedObservation, appFilteredData)

\* C27: the reference is always matched. Every entry into a pattern mode
\* taken with a map and a selected observation R of filteredData stores a
\* matched set that holds R; a city-wide entry then has stats.total >= 1 and
\* hands getBoundsForPoints a non-empty list, a local entry has stats that
\* are not null with count >= 1.
C27_ReferenceMatched ==
  [][ ( /\ selectedObservation # Null
        /\ mapInstance # Null
        /\ IsIn(selectedObservation, filteredData) )
      => /\ handleCityWidePattern =>
              /\ IsIn(selectedObservation, patternData'.observations)
              /\ patternData'.stats.total >= 1
              /\ getBoundsForPoints(patternData'.observations) # Null
         /\ handleLocalPattern =>
              /\ IsIn(selectedObservation, patternData'.observations)
              /\ patternData'.stats # Null
              /\ patternData'.stats.count >= 1 ]_vars

\* just after a local entry whose matched set is the reference alone, with
\* another observation in the filtered set
C27_Witness ==
  /\ patternMode = PATTERN_MODE_LOCAL
  /\ roundTrip # Null
  /\ roundTrip.phase = "entered"
  /\ Len(filteredData) = 2
  /\ patternData.observations = << savedMapState.selectedObservation >>
  /\ patternData.stats.count = 1

PersistentCall(fn) ==
  /\ utilCall # Null
  /\ utilCall.fn = fn
  /\ utilCall.timeWindowMs = TIME_WINDOWS["persistent"].ms

\* C28 as stated: under the persistent window both analyses count every
\* observation as recent and give the trend "increasing" for a non-empty set
\* and "stable" for an empty one.
C28_PersistentTrendBothAnalyses ==
  /\ PersistentCall("calculateCityWideStats") =>
       /\ utilCall.result.recentCount = Len(observations)
       /\ utilCall.result.trend =
            IF observations # <<>> THEN "increasing" ELSE "stable"
  /\ PersistentCall("calculateLocalStats") =>
       /\ utilCall.result # Null
       /\ utilCall.result.trend =
            IF observations # <<>> THEN "increasing" ELSE "stable"

\* C28: under the persistent window the midpoint lies before every
\* timestamp: the city-wide statistics have recentCount = total (so no
\* observation is older) and the trend "increasing" for a non-empty set and
\* "stable" for an empty one; the local statistics of a non-empty set have
\* the trend "increasing", and those of an empty set are null and carry no
\* trend.
C28_PersistentTrend ==
  /\ PersistentCall("calculateCityWideStats") =>
       /\ utilCall.result.recentCount = Len(observations)
       /\ utilCall.result.recentCount = utilCall.result.total
       /\ NewerThanMidpoint(utilCall.timeWindowMs) = Len(observations)
       /\ utilCall.result.trend =
            IF observations # <<>> THEN "increasing" ELSE "stable"
  /\ PersistentCall("calculateLocalStats") =>
       IF observations = <<>>
       THEN utilCall.result = Null
       ELSE utilCall.result.trend = "increasing"

\* the local statistics, under the persistent window, of a set whose
\* observations are all more than two weeks old
C28_Witness ==
  /\ PersistentCall("calculateLocalStats")
  /\ Len(observations) = 2
  /\ \A i \in DOMAIN observations : observations[i].timestamp = Now0 - 400
  /\ utilCall.result.trend = "increasing"

\* C29: the snapshot is frozen while a pattern mode is active. In a pattern
\* mode a saved view and a snapshot exist, and every step (lens change,
\* period change, pan, zoom, marker click, effect, clock) leaves patternMode,
\* patternData and savedMapState unchanged, except clearPattern, which sets
\* the map to the saved center and zoom and the selection to the saved one,
\* whatever the view and the filter have become.
C29_SnapshotFrozen ==
  [][ patternMode # PATTERN_MODE_NONE =>
        /\ savedMapState # Null
        /\ patternData # Null
        /\ \/ UNCHANGED << patternMode, patternData, savedMapState >>
           \/ /\ patternMode' = PATTERN_MODE_NONE
              /\ patternData' = Null
              /\ savedMapState' = Null
              /\ mapInstance'.center = savedMapState.center
              /\ mapInstance'.zoom = savedMapState.zoom
              /\ selectedObservation' = savedMapState.selectedObservation
              /\ selectedObservation' # Null ]_vars

\* in a pattern mode, after a period change and a pan: an observation of
\* the snapshot's matched set is no longer in the filtered set, and the map
\* is away from the saved view
C29_Witness ==
  /\ Idle
  /\ patternMode # PATTERN_MODE_NONE
  /\ \E i \in DOMAIN patternData.observations :
       ~IsIn(patternData.observations[i], filteredData)
  /\ mapInstance.center # savedMapState.center
  /\ mapInstance.zoom # savedMapState.zoom
  /\ ~IsIn(savedMapState.selectedObservation, filteredData)

\* C30: the radius circle exists exactly in LOCAL mode. With an initialised
\* map, localPatternCircleRef holds a circle if and only if the mode is
\* LOCAL, the circle is centred on the snapshot's center with the configured
\* radius, and the map carries one circle layer in LOCAL mode and none in
\* the other modes; without a map there is no circle.
C30_CircleIffLocal ==
  /\ mapInstance = Null => (localPatternCircle = Null /\ circleLayers = 0)
  /\ mapInstance # Null =>
       /\ (localPatternCircle # Null) <=> (patternMode = PATTERN_MODE_LOCAL)
       /\ circleLayers = IF patternMode = PATTERN_MODE_LOCAL THEN 1 ELSE 0
       /\ localPatternCircle # Null =>
            /\ localPatternCircle.center = patternData.center
            /\ localPatternCircle.radius = MAP_CONFIG.localPatternRadius

\* LOCAL mode with its effects run: the circle is on the map, around the
\* reference
C30_Witness ==
  /\ Idle
  /\ patternMode = PATTERN_MODE_LOCAL
  /\ localPatternCircle # Null
  /\ circleLayers = 1
  /\ localPatternCircle.center = mapInstance.center

====
